---- MODULE Spec2Model ----
(***************************************************************************)
(* Model of wip.py: the dynamic Ansible inventory provider for AWS         *)
(* WorkSpaces.  Python strings that are only compared for equality (state, *)
(* operating system, IP address, computer name, workspace id) are TLA+     *)
(* strings.  Strings that the program builds, lowercases or tests for a    *)
(* prefix (dictionary keys of the inventory, tag keys and values) are      *)
(* sequences of one-character strings, so that lower(), the f-string join  *)
(* and startswith() are computed and not assumed.                          *)
(***************************************************************************)
EXTENDS Integers, Sequences, FiniteSets, TLC

VARIABLES
    pc,                    \* position of the single thread of control
    args,                  \* argparse namespace of main()
    environ,               \* os.environ entries main() reads
    region,                \* Inventory.region
    workspaces_directory,  \* Inventory.workspaces_directory
    specific_workspaces,   \* Inventory.specific_workspaces
    request,               \* operation_parameters chosen by get_workspaces
    workspaces,            \* Inventory.workspaces
    idx,                   \* position of the for loop of generate_inventory
    inventory,             \* Inventory.inventory
    tag_calls,             \* ResourceIds passed to client.describe_tags, in order
    stdout,                \* what the process printed, in order
    exit_status,           \* exit status of the process, NotExited while running
    tags_list,             \* input of get_tags taken alone
    group_names            \* result of get_tags taken alone

vars == <<pc, args, environ, region, workspaces_directory, specific_workspaces,
          request, workspaces, idx, inventory, tag_calls, stdout, exit_status,
          tags_list, group_names>>

(***************************************************************************)
(* Bounds of the model.                                                    *)
(***************************************************************************)
MaxRecords == 2        \* records returned by the listing, Inventory alone
MaxMainRecords == 1    \* records returned by the listing, under main()
MaxLookupTags == 2     \* tags returned by one describe_tags call in a build
MaxTags == 2           \* tags in the input of get_tags taken alone

NotExited == 0 - 1

(***************************************************************************)
(* String literals of the program that are dictionary keys.                *)
(***************************************************************************)
meta_key == <<"_","m","e","t","a">>
ubuntu_22_04_workspaces == <<"u","b","u","n","t","u","_","2","2","_","0","4","_","w","o","r","k","s","p","a","c","e","s">>
amazon_linux_2_workspaces == <<"a","m","a","z","o","n","_","l","i","n","u","x","_","2","_","w","o","r","k","s","p","a","c","e","s">>
windows_server_2016_workspaces == <<"w","i","n","d","o","w","s","_","s","e","r","v","e","r","_","2","0","1","6","_","w","o","r","k","s","p","a","c","e","s">>
windows_server_2019_workspaces == <<"w","i","n","d","o","w","s","_","s","e","r","v","e","r","_","2","0","1","9","_","w","o","r","k","s","p","a","c","e","s">>
windows_server_2022_workspaces == <<"w","i","n","d","o","w","s","_","s","e","r","v","e","r","_","2","0","2","2","_","w","o","r","k","s","p","a","c","e","s">>
windows_10_workspaces == <<"w","i","n","d","o","w","s","_","1","0","_","w","o","r","k","s","p","a","c","e","s">>
windows_11_workspaces == <<"w","i","n","d","o","w","s","_","1","1","_","w","o","r","k","s","p","a","c","e","s">>
windows_prefix == <<"w","i","n","d","o","w","s">>

(***************************************************************************)
(* str.lower() and str.startswith().                                       *)
(***************************************************************************)
LowerTable ==
    [A |-> "a", B |-> "b", C |-> "c", D |-> "d", E |-> "e", F |-> "f",
     G |-> "g", H |-> "h", I |-> "i", J |-> "j", K |-> "k", L |-> "l",
     M |-> "m", N |-> "n", O |-> "o", P |-> "p", Q |-> "q", R |-> "r",
     S |-> "s", T |-> "t", U |-> "u", V |-> "v", W |-> "w", X |-> "x",
     Y |-> "y", Z |-> "z"]

LowerChar(c) == IF c \in DOMAIN LowerTable THEN LowerTable[c] ELSE c

lower(s) == [k \in 1..Len(s) |-> LowerChar(s[k])]

startswith(s, prefix) ==
    /\ Len(s) >= Len(prefix)
    /\ SubSeq(s, 1, Len(prefix)) = prefix

Contains(seq, x) == \E k \in 1..Len(seq) : seq[k] = x

(***************************************************************************)
(* get_tags, lines 43-50: the group names of one tag list.                 *)
(***************************************************************************)
TagNameNoLower(item) == item.Key \o <<"-">> \o item.Value

TagNameUnderscore(item) == lower(item.Key) \o <<"_">> \o lower(item.Value)

TagName(item) == lower(item.Key) \o <<"-">> \o lower(item.Value)

AddName(names, name) == IF Contains(names, name) THEN names ELSE Append(names, name)

RECURSIVE TagLoop(_, _)
TagLoop(items, names) ==
    IF items = <<>> THEN names
    ELSE TagLoop(Tail(items), AddName(names, TagName(Head(items))))

get_tags(items) == TagLoop(items, <<>>)

(***************************************************************************)
(* generate_inventory, lines 83-130: the decisions taken for one record.   *)
(***************************************************************************)
IsAvailableAny(ws) == ws.State # ""

IsAvailable(ws) == ws.State = "AVAILABLE"

NoGroup == <<>>   \* the else branch of lines 106-108: no group name is bound

OSGroupNameGuess(os) ==
    CASE os = "UBUNTU_22_04" -> ubuntu_22_04_workspaces
      [] os = "AMAZON_LINUX_2" -> amazon_linux_2_workspaces
      [] os = "WINDOWS_SERVER_2016" -> windows_server_2016_workspaces
      [] os = "WINDOWS_SERVER_2019" -> windows_server_2019_workspaces
      [] os = "WINDOWS_SERVER_2022" -> windows_server_2022_workspaces
      [] os = "WINDOWS_10" -> windows_10_workspaces
      [] os = "WINDOWS_11" -> windows_11_workspaces
      [] OTHER -> ubuntu_22_04_workspaces

OSGroupName(os) ==
    CASE os = "UBUNTU_22_04" -> ubuntu_22_04_workspaces
      [] os = "AMAZON_LINUX_2" -> amazon_linux_2_workspaces
      [] os = "WINDOWS_SERVER_2016" -> windows_server_2016_workspaces
      [] os = "WINDOWS_SERVER_2019" -> windows_server_2019_workspaces
      [] os = "WINDOWS_SERVER_2022" -> windows_server_2022_workspaces
      [] os = "WINDOWS_10" -> windows_10_workspaces
      [] os = "WINDOWS_11" -> windows_11_workspaces
      [] OTHER -> NoGroup

WinrmVars(computer_name) ==
    [ansible_connection |-> "winrm",
     ansible_winrm_transport |-> "kerberos",
     ansible_winrm_port |-> "5985",
     ansible_winrm_kerberos_hostname_override |-> computer_name]

SshVars == [ansible_connection |-> "ssh", ansible_user |-> "ansible"]

HostVarsAlwaysSsh(group_name, computer_name) == SshVars

HostVarsSshAsRoot(group_name, computer_name) ==
    IF startswith(group_name, windows_prefix)
    THEN WinrmVars(computer_name)
    ELSE [ansible_connection |-> "ssh", ansible_user |-> "root"]

HostVars(group_name, computer_name) ==
    IF startswith(group_name, windows_prefix)
    THEN WinrmVars(computer_name)
    ELSE SshVars

(***************************************************************************)
(* The dictionary self.inventory: a function from keys to entries.  The    *)
(* entry of '_meta' has the one field hostvars, every other entry has the  *)
(* fields hosts and vars.                                                  *)
(***************************************************************************)
EmptyDict == <<>>

NewInventory == meta_key :> [hostvars |-> EmptyDict]

EnsureGroup(inv, name) ==
    IF name \in DOMAIN inv THEN inv
    ELSE (name :> [hosts |-> <<>>, vars |-> EmptyDict]) @@ inv

HasHosts(inv, name) == "hosts" \in DOMAIN inv[name]

AppendHost(inv, name, ip) == [inv EXCEPT ![name].hosts = Append(@, ip)]

SetHostVarsByName(inv, ip, computer_name, host_vars) ==
    [inv EXCEPT ![meta_key].hostvars = (computer_name :> host_vars) @@ @]

SetHostVars(inv, ip, computer_name, host_vars) ==
    [inv EXCEPT ![meta_key].hostvars = (ip :> host_vars) @@ @]

ClassifyRecordHostOnly(inv, ws, group_name) ==
    AppendHost(EnsureGroup(inv, group_name), group_name, ws.IpAddress)

\* lines 110-130 for one eligible record
ClassifyRecord(inv, ws, group_name) ==
    SetHostVars(AppendHost(EnsureGroup(inv, group_name), group_name, ws.IpAddress),
                ws.IpAddress, ws.ComputerName,
                HostVars(group_name, ws.ComputerName))

\* lines 136-139: the loop over the tag-derived names.  Indexing the entry
\* of a key that has no 'hosts' raises KeyError and leaves the loop.
RECURSIVE TagGroupLoop(_, _, _)
TagGroupLoop(inv, names, ip) ==
    IF names = <<>> THEN [inventory |-> inv, raised |-> FALSE]
    ELSE LET with == EnsureGroup(inv, Head(names))
         IN  IF HasHosts(with, Head(names))
             THEN TagGroupLoop(AppendHost(with, Head(names), ip), Tail(names), ip)
             ELSE [inventory |-> with, raised |-> TRUE]

(***************************************************************************)
(* Inputs.  What describe_workspaces and describe_tags return, and what    *)
(* the command line and the environment hold, are chosen from small sets.  *)
(***************************************************************************)
States == {"AVAILABLE", "STOPPED"}

OSNames == {"UBUNTU_22_04", "WINDOWS_10", "WINDOWS_11", "SOME_FUTURE_OS"}

IpAddresses == {"10.0.0.5", "10.0.0.9"}

\* the k-th record of a listing carries its own id and computer name
WorkspaceIdOf == <<"ws-1", "ws-2", "ws-3", "ws-4">>

ComputerNameOf == <<"WK-1", "WK-2", "WK-3", "WK-4">>

Listings(bound) ==
    UNION { { [k \in 1..n |->
                [State |-> f[k][1],
                 OperatingSystemName |-> f[k][2],
                 IpAddress |-> f[k][3],
                 ComputerName |-> ComputerNameOf[k],
                 WorkspaceId |-> WorkspaceIdOf[k]]]
              : f \in [1..n -> States \X OSNames \X IpAddresses] }
            : n \in 0..bound }

SeqsUpTo(S, bound) == UNION { [1..n -> S] : n \in 0..bound }

Tag(key, value) == [Key |-> key, Value |-> value]

\* tags a describe_tags call of a build may return
LookupTags ==
    { Tag(<<"T","e","a","m">>, <<"I","n","f","r","a">>),
      Tag(<<"u","b","u","n","t","u","_","2","2","_","0","4">>,
          <<"w","o","r","k","s","p","a","c","e","s">>) }

TagKeys ==
    { <<"T","e","a","m">>, <<"t","e","a","m">>, <<"E","n","v">>, <<>> }

TagValues ==
    { <<"I","n","f","r","a">>, <<"I","N","F","R","A">>, <<"p","r","o","d">> }

TagPairs == { Tag(k, v) : k \in TagKeys, v \in TagValues }

ArgSets ==
    { a \in [list : BOOLEAN,
             region : {"", "us-west-2"},
             directory_id : {"", "d-1"},
             workspace_ids : {<<>>, <<"ws-1">>}] :
        ~(a.directory_id # "" /\ a.workspace_ids # <<>>) }

Environs == [AWS_REGION : {"", "us-east-1"}, DIRECTORY_ID : {"", "d-9"}]

NoArgs == [list |-> FALSE, region |-> "", directory_id |-> "", workspace_ids |-> <<>>]

NoEnviron == [AWS_REGION |-> "", DIRECTORY_ID |-> ""]

(***************************************************************************)
(* The Inventory constructor, lines 13-25.                                 *)
(***************************************************************************)
Ws == workspaces[idx]

Emit(item) == stdout' = Append(stdout, item)

GetClientOK ==
    /\ pc = "get_client"
    /\ pc' = "get_workspaces"
    /\ UNCHANGED <<args, environ, region, workspaces_directory, specific_workspaces,
                   request, workspaces, idx, inventory, tag_calls, stdout,
                   exit_status, tags_list, group_names>>

GetClientFail ==
    /\ pc = "get_client"
    /\ Emit([kind |-> "Exception", from |-> "get_client"])
    /\ pc' = "raised"
    /\ UNCHANGED <<args, environ, region, workspaces_directory, specific_workspaces,
                   request, workspaces, idx, inventory, tag_calls,
                   exit_status, tags_list, group_names>>

OperationParameters(specific, directory) ==
    IF specific # <<>> THEN "WorkspaceIds"
    ELSE IF directory # "" THEN "DirectoryId"
    ELSE "none"

GetWorkspacesOK(bound) ==
    /\ pc = "get_workspaces"
    /\ request' = OperationParameters(specific_workspaces, workspaces_directory)
    /\ \E listing \in Listings(bound) : workspaces' = listing
    /\ pc' = "generate_inventory"
    /\ UNCHANGED <<args, environ, region, workspaces_directory, specific_workspaces,
                   idx, inventory, tag_calls, stdout, exit_status, tags_list,
                   group_names>>

GetWorkspacesFail ==
    /\ pc = "get_workspaces"
    /\ request' = OperationParameters(specific_workspaces, workspaces_directory)
    /\ pc' = "raised"
    /\ UNCHANGED <<args, environ, region, workspaces_directory, specific_workspaces,
                   workspaces, idx, inventory, tag_calls, stdout, exit_status,
                   tags_list, group_names>>

(***************************************************************************)
(* generate_inventory, lines 80-140.                                       *)
(***************************************************************************)
GenerateInventory ==
    /\ pc = "generate_inventory"
    /\ inventory' = NewInventory
    /\ idx' = 1
    /\ pc' = "loop"
    /\ UNCHANGED <<args, environ, region, workspaces_directory, specific_workspaces,
                   request, workspaces, tag_calls, stdout, exit_status, tags_list,
                   group_names>>

SkipNotAvailable ==
    /\ pc = "loop"
    /\ idx <= Len(workspaces)
    /\ ~IsAvailable(Ws)
    /\ idx' = idx + 1
    /\ UNCHANGED <<pc, args, environ, region, workspaces_directory,
                   specific_workspaces, request, workspaces, inventory, tag_calls,
                   stdout, exit_status, tags_list, group_names>>

SkipUnsupported ==
    /\ pc = "loop"
    /\ idx <= Len(workspaces)
    /\ IsAvailable(Ws)
    /\ OSGroupName(Ws.OperatingSystemName) = NoGroup
    /\ Emit([kind |-> "Warning", ws |-> Ws])
    /\ idx' = idx + 1
    /\ UNCHANGED <<pc, args, environ, region, workspaces_directory,
                   specific_workspaces, request, workspaces, inventory, tag_calls,
                   exit_status, tags_list, group_names>>

Classify ==
    /\ pc = "loop"
    /\ idx <= Len(workspaces)
    /\ IsAvailable(Ws)
    /\ OSGroupName(Ws.OperatingSystemName) # NoGroup
    /\ inventory' = ClassifyRecord(inventory, Ws, OSGroupName(Ws.OperatingSystemName))
    /\ pc' = "get_tags"
    /\ UNCHANGED <<args, environ, region, workspaces_directory, specific_workspaces,
                   request, workspaces, idx, tag_calls, stdout, exit_status,
                   tags_list, group_names>>

DescribeTagsOK ==
    /\ pc = "get_tags"
    /\ tag_calls' = Append(tag_calls, Ws.WorkspaceId)
    /\ \E tags \in SeqsUpTo(LookupTags, MaxLookupTags) :
         LET r == TagGroupLoop(inventory, get_tags(tags), Ws.IpAddress)
         IN  /\ inventory' = r.inventory
             /\ pc' = IF r.raised THEN "raised" ELSE "loop"
             /\ idx' = IF r.raised THEN idx ELSE idx + 1
    /\ UNCHANGED <<args, environ, region, workspaces_directory, specific_workspaces,
                   request, workspaces, stdout, exit_status, tags_list, group_names>>

DescribeTagsFail ==
    /\ pc = "get_tags"
    /\ tag_calls' = Append(tag_calls, Ws.WorkspaceId)
    /\ Emit([kind |-> "Exception", from |-> "get_tags"])
    /\ pc' = "raised"
    /\ UNCHANGED <<args, environ, region, workspaces_directory, specific_workspaces,
                   request, workspaces, idx, inventory, exit_status, tags_list,
                   group_names>>

LoopEnd ==
    /\ pc = "loop"
    /\ idx > Len(workspaces)
    /\ pc' = "constructed"
    /\ UNCHANGED <<args, environ, region, workspaces_directory, specific_workspaces,
                   request, workspaces, idx, inventory, tag_calls, stdout,
                   exit_status, tags_list, group_names>>

Build(bound) ==
    \/ GetClientOK
    \/ GetClientFail
    \/ GetWorkspacesOK(bound)
    \/ GetWorkspacesFail
    \/ GenerateInventory
    \/ SkipNotAvailable
    \/ SkipUnsupported
    \/ Classify
    \/ DescribeTagsOK
    \/ DescribeTagsFail
    \/ LoopEnd

(***************************************************************************)
(* Inventory taken alone: the state when __init__ has stored its           *)
(* arguments (lines 14-22), then the three calls of lines 23-25.           *)
(***************************************************************************)
Init ==
    /\ pc = "get_client"
    /\ args = NoArgs
    /\ environ = NoEnviron
    /\ region = "us-west-2"
    /\ workspaces_directory = ""
    /\ specific_workspaces = <<>>
    /\ request = "unset"
    /\ workspaces = <<>>
    /\ idx = 0
    /\ inventory = EmptyDict
    /\ tag_calls = <<>>
    /\ stdout = <<>>
    /\ exit_status = NotExited
    /\ tags_list = <<>>
    /\ group_names = <<>>

Next == Build(MaxRecords)

Spec == Init /\ [][Next]_vars

(***************************************************************************)
(* main() and the __main__ guard, lines 146-188.  args is the namespace    *)
(* parse_args returned: None and the empty list are both the empty value,  *)
(* the program only tests them for truth.                                  *)
(***************************************************************************)
ShouldPrintHelpLostNot(a) == ~a.list /\ a.workspace_ids # <<>>

ShouldPrintHelp(a) == ~a.list /\ a.workspace_ids = <<>>

ResolveRegion(a, env) == IF a.region # "" THEN a.region ELSE env.AWS_REGION

ResolveDirectory(a, env) ==
    IF a.directory_id # "" THEN a.directory_id ELSE env.DIRECTORY_ID

Exit(status) ==
    /\ pc' = "exited"
    /\ exit_status' = status

PrintHelp ==
    /\ pc = "main"
    /\ ShouldPrintHelp(args)
    /\ Emit([kind |-> "help"])
    /\ Exit(0)
    /\ UNCHANGED <<args, environ, region, workspaces_directory, specific_workspaces,
                   request, workspaces, idx, inventory, tag_calls, tags_list,
                   group_names>>

RegionError ==
    /\ pc = "main"
    /\ ~ShouldPrintHelp(args)
    /\ ResolveRegion(args, environ) = ""
    /\ Emit([kind |-> "Error: AWS region must be specified"])
    /\ Exit(1)
    /\ UNCHANGED <<args, environ, region, workspaces_directory, specific_workspaces,
                   request, workspaces, idx, inventory, tag_calls, tags_list,
                   group_names>>

Construct ==
    /\ pc = "main"
    /\ ~ShouldPrintHelp(args)
    /\ ResolveRegion(args, environ) # ""
    /\ region' = ResolveRegion(args, environ)
    /\ workspaces_directory' = ResolveDirectory(args, environ)
    /\ specific_workspaces' = args.workspace_ids
    /\ pc' = "get_client"
    /\ UNCHANGED <<args, environ, request, workspaces, idx, inventory, tag_calls,
                   stdout, exit_status, tags_list, group_names>>

PrintInventory ==
    /\ pc = "constructed"
    /\ Emit([kind |-> "inventory", value |-> inventory])
    /\ Exit(0)
    /\ UNCHANGED <<args, environ, region, workspaces_directory, specific_workspaces,
                   request, workspaces, idx, inventory, tag_calls, tags_list,
                   group_names>>

CatchException ==
    /\ pc = "raised"
    /\ Emit([kind |-> "Error / Exception"])
    /\ Exit(0)
    /\ UNCHANGED <<args, environ, region, workspaces_directory, specific_workspaces,
                   request, workspaces, idx, inventory, tag_calls, tags_list,
                   group_names>>

InitMain ==
    /\ pc = "main"
    /\ args \in ArgSets
    /\ environ \in Environs
    /\ region = ""
    /\ workspaces_directory = ""
    /\ specific_workspaces = <<>>
    /\ request = "unset"
    /\ workspaces = <<>>
    /\ idx = 0
    /\ inventory = EmptyDict
    /\ tag_calls = <<>>
    /\ stdout = <<>>
    /\ exit_status = NotExited
    /\ tags_list = <<>>
    /\ group_names = <<>>

NextMain ==
    \/ PrintHelp
    \/ RegionError
    \/ Construct
    \/ Build(MaxMainRecords)
    \/ PrintInventory
    \/ CatchException

SpecMain == InitMain /\ [][NextMain]_vars

(***************************************************************************)
(* get_tags taken alone, lines 43-50, on every tag list of the bound.      *)
(***************************************************************************)
GetTagsAlone ==
    /\ pc = "tags_input"
    /\ group_names' = get_tags(tags_list)
    /\ pc' = "tags_done"
    /\ UNCHANGED <<args, environ, region, workspaces_directory, specific_workspaces,
                   request, workspaces, idx, inventory, tag_calls, stdout,
                   exit_status, tags_list>>

InitTags ==
    /\ pc = "tags_input"
    /\ tags_list \in SeqsUpTo(TagPairs, MaxTags)
    /\ group_names = <<>>
    /\ args = NoArgs
    /\ environ = NoEnviron
    /\ region = ""
    /\ workspaces_directory = ""
    /\ specific_workspaces = <<>>
    /\ request = "unset"
    /\ workspaces = <<>>
    /\ idx = 0
    /\ inventory = EmptyDict
    /\ tag_calls = <<>>
    /\ stdout = <<>>
    /\ exit_status = NotExited

NextTags == GetTagsAlone

SpecTags == InitTags /\ [][NextTags]_vars

(***************************************************************************)
(* Vocabulary of the properties, written from the statements and not from  *)
(* the operators above.                                                    *)
(***************************************************************************)
RecognisedOS ==
    {"UBUNTU_22_04", "AMAZON_LINUX_2", "WINDOWS_SERVER_2016", "WINDOWS_SERVER_2019",
     "WINDOWS_SERVER_2022", "WINDOWS_10", "WINDOWS_11"}

WindowsOS ==
    {"WINDOWS_SERVER_2016", "WINDOWS_SERVER_2019", "WINDOWS_SERVER_2022",
     "WINDOWS_10", "WINDOWS_11"}

ExpectedGroup ==
    [UBUNTU_22_04 |-> ubuntu_22_04_workspaces,
     AMAZON_LINUX_2 |-> amazon_linux_2_workspaces,
     WINDOWS_SERVER_2016 |-> windows_server_2016_workspaces,
     WINDOWS_SERVER_2019 |-> windows_server_2019_workspaces,
     WINDOWS_SERVER_2022 |-> windows_server_2022_workspaces,
     WINDOWS_10 |-> windows_10_workspaces,
     WINDOWS_11 |-> windows_11_workspaces]

OSGroups == { ExpectedGroup[os] : os \in RecognisedOS }

Eligible(ws) == ws.State = "AVAILABLE" /\ ws.OperatingSystemName \in RecognisedOS

Unsupported(ws) == ws.State = "AVAILABLE" /\ ws.OperatingSystemName \notin RecognisedOS

\* number of records the loop has decided; the record at idx is decided once
\* its tag lookup is pending or has raised
Decided ==
    IF pc \in {"get_tags", "raised"} THEN idx
    ELSE IF idx > 0 THEN idx - 1 ELSE 0

\* number of records whose tag lookup has been issued
LookedUp ==
    IF pc = "raised" THEN idx
    ELSE IF idx > 0 THEN idx - 1 ELSE 0

Built == inventory # EmptyDict

GroupKeys == { n \in DOMAIN inventory : "hosts" \in DOMAIN inventory[n] }

HostsOf(n) == IF n \in GroupKeys THEN inventory[n].hosts ELSE <<>>

HostVarsMap == IF Built THEN inventory[meta_key].hostvars ELSE EmptyDict

InGroups(ip) == \E n \in GroupKeys : Contains(inventory[n].hosts, ip)

InOutput(ip) == InGroups(ip) \/ ip \in DOMAIN HostVarsMap

SharedWithEligible(ip) ==
    \E j \in 1..Decided : Eligible(workspaces[j]) /\ workspaces[j].IpAddress = ip

LastWriter(k) ==
    \A j \in (k + 1)..Decided :
        ~(Eligible(workspaces[j]) /\ workspaces[j].IpAddress = workspaces[k].IpAddress)

IsWarning(item) == item.kind = "Warning"

HasHyphen(name) == Contains(name, "-")

Printed(kind) == \E k \in 1..Len(stdout) : stdout[k].kind = kind

(***************************************************************************)
(* C1.  Every IP address in the host list of any group, OS-derived or      *)
(* tag-derived, is a key of _meta.hostvars (a dictionary: one entry per    *)
(* key).                                                                   *)
(***************************************************************************)
C1_HostsHaveHostVars ==
    \A n \in GroupKeys :
        \A k \in 1..Len(inventory[n].hosts) :
            inventory[n].hosts[k] \in DOMAIN HostVarsMap

C1_Witness ==
    /\ pc = "constructed"
    /\ \E n \in GroupKeys : HasHyphen(n) /\ Len(inventory[n].hosts) = 2
    /\ \E n \in GroupKeys : n \in OSGroups /\ inventory[n].hosts # <<>>
    /\ Cardinality(DOMAIN HostVarsMap) = 2

(***************************************************************************)
(* C2 as stated.  When the build completes, the IP address of every record *)
(* whose state is not AVAILABLE is in no group and has no hostvars entry.  *)
(***************************************************************************)
C2_Original ==
    pc = "constructed" =>
        \A k \in 1..Len(workspaces) :
            workspaces[k].State # "AVAILABLE" => ~InOutput(workspaces[k].IpAddress)

(***************************************************************************)
(* C2 amended.  The IP address of a record whose state is not AVAILABLE is *)
(* in no group and has no hostvars entry, unless an eligible record        *)
(* (AVAILABLE, recognised OS) that the loop has processed carries the same *)
(* IP address.                                                             *)
(***************************************************************************)
C2_NotAvailableAddsNothing ==
    \A k \in 1..Len(workspaces) :
        (/\ workspaces[k].State # "AVAILABLE"
         /\ ~SharedWithEligible(workspaces[k].IpAddress))
        => ~InOutput(workspaces[k].IpAddress)

C2_Witness ==
    /\ pc = "constructed"
    /\ Len(workspaces) = 2
    /\ workspaces[1].State = "STOPPED"
    /\ workspaces[1].OperatingSystemName = "UBUNTU_22_04"
    /\ Eligible(workspaces[2])
    /\ InOutput(workspaces[2].IpAddress)
    /\ ~InOutput(workspaces[1].IpAddress)

(***************************************************************************)
(* C3 as stated.  When the build completes, every record whose operating   *)
(* system is not recognised has exactly one warning and its IP address is  *)
(* not in the output.                                                      *)
(***************************************************************************)
C3_Original ==
    pc = "constructed" =>
        \A k \in 1..Len(workspaces) :
            workspaces[k].OperatingSystemName \notin RecognisedOS =>
                /\ Cardinality({ m \in 1..Len(stdout) :
                        stdout[m] = [kind |-> "Warning", ws |-> workspaces[k]] }) = 1
                /\ ~InOutput(workspaces[k].IpAddress)

(***************************************************************************)
(* C3 amended.  The warnings printed are exactly one per processed record  *)
(* that is AVAILABLE with an unrecognised operating system, in input order *)
(* (a record that is not AVAILABLE gets none); such a record's IP address  *)
(* is not in the output unless a processed eligible record carries the     *)
(* same IP address; and a build that completes has processed every record. *)
(***************************************************************************)
C3_UnsupportedWarnedAndSkipped ==
    /\ SelectSeq(stdout, IsWarning)
         = LET u == SelectSeq(SubSeq(workspaces, 1, Decided), Unsupported)
           IN  [k \in 1..Len(u) |-> [kind |-> "Warning", ws |-> u[k]]]
    /\ \A k \in 1..Decided :
         (/\ Unsupported(workspaces[k])
          /\ ~SharedWithEligible(workspaces[k].IpAddress))
         => ~InOutput(workspaces[k].IpAddress)
    /\ pc = "constructed" => Decided = Len(workspaces)

C3_Witness ==
    /\ pc = "constructed"
    /\ Len(workspaces) = 2
    /\ Unsupported(workspaces[1])
    /\ Eligible(workspaces[2])
    /\ workspaces[1].IpAddress # workspaces[2].IpAddress
    /\ stdout = <<[kind |-> "Warning", ws |-> workspaces[1]]>>
    /\ ~InOutput(workspaces[1].IpAddress)
    /\ InGroups(workspaces[2].IpAddress)

(***************************************************************************)
(* C5 as stated.  When the build completes, the hostvars entry of the IP   *)
(* address of every eligible Windows record is the winrm map with that     *)
(* record's computer name.                                                 *)
(***************************************************************************)
C5_Original ==
    pc = "constructed" =>
        \A k \in 1..Len(workspaces) :
            (Eligible(workspaces[k]) /\ workspaces[k].OperatingSystemName \in WindowsOS)
            => /\ workspaces[k].IpAddress \in DOMAIN HostVarsMap
               /\ HostVarsMap[workspaces[k].IpAddress]
                    = [ansible_connection |-> "winrm",
                       ansible_winrm_transport |-> "kerberos",
                       ansible_winrm_port |-> "5985",
                       ansible_winrm_kerberos_hostname_override
                           |-> workspaces[k].ComputerName]

(***************************************************************************)
(* C5 amended.  For every processed eligible Windows record that is the    *)
(* last processed eligible record carrying its IP address, the hostvars    *)
(* entry of that IP address is connection winrm, transport kerberos, port  *)
(* 5985 and Kerberos hostname override equal to that record's computer     *)
(* name.                                                                   *)
(***************************************************************************)
C5_WindowsHostVars ==
    \A k \in 1..Decided :
        (/\ Eligible(workspaces[k])
         /\ workspaces[k].OperatingSystemName \in WindowsOS
         /\ LastWriter(k))
        => /\ workspaces[k].IpAddress \in DOMAIN HostVarsMap
           /\ HostVarsMap[workspaces[k].IpAddress]
                = [ansible_connection |-> "winrm",
                   ansible_winrm_transport |-> "kerberos",
                   ansible_winrm_port |-> "5985",
                   ansible_winrm_kerberos_hostname_override
                       |-> workspaces[k].ComputerName]

C5_Witness ==
    /\ pc = "constructed"
    /\ Len(workspaces) = 2
    /\ workspaces[1].OperatingSystemName = "WINDOWS_10"
    /\ workspaces[2].OperatingSystemName = "WINDOWS_11"
    /\ Eligible(workspaces[1]) /\ Eligible(workspaces[2])
    /\ workspaces[1].IpAddress = workspaces[2].IpAddress
    /\ HostVarsMap[workspaces[2].IpAddress].ansible_winrm_kerberos_hostname_override
         = workspaces[2].ComputerName

(***************************************************************************)
(* C6 as stated.  When the build completes, the hostvars entry of the IP   *)
(* address of every eligible non-Windows record is the fixed SSH map.      *)
(***************************************************************************)
C6_Original ==
    pc = "constructed" =>
        \A k \in 1..Len(workspaces) :
            (Eligible(workspaces[k]) /\ workspaces[k].OperatingSystemName \notin WindowsOS)
            => /\ workspaces[k].IpAddress \in DOMAIN HostVarsMap
               /\ HostVarsMap[workspaces[k].IpAddress]
                    = [ansible_connection |-> "ssh", ansible_user |-> "ansible"]

(***************************************************************************)
(* C6 amended.  For every processed eligible non-Windows record that is    *)
(* the last processed eligible record carrying its IP address, the         *)
(* hostvars entry of that IP address is exactly {ansible_connection: ssh,  *)
(* ansible_user: ansible}.                                                 *)
(***************************************************************************)
C6_SshHostVars ==
    \A k \in 1..Decided :
        (/\ Eligible(workspaces[k])
         /\ workspaces[k].OperatingSystemName \notin WindowsOS
         /\ LastWriter(k))
        => /\ workspaces[k].IpAddress \in DOMAIN HostVarsMap
           /\ HostVarsMap[workspaces[k].IpAddress]
                = [ansible_connection |-> "ssh", ansible_user |-> "ansible"]

C6_Witness ==
    /\ pc = "constructed"
    /\ Len(workspaces) = 2
    /\ workspaces[1].OperatingSystemName = "WINDOWS_11"
    /\ workspaces[2].OperatingSystemName = "UBUNTU_22_04"
    /\ Eligible(workspaces[1]) /\ Eligible(workspaces[2])
    /\ workspaces[1].IpAddress = workspaces[2].IpAddress
    /\ HostVarsMap[workspaces[2].IpAddress].ansible_connection = "ssh"

(***************************************************************************)
(* C4.  When the process has ended after a failure of the listing or of a  *)
(* tag lookup was reported, it has printed no inventory and its exit       *)
(* status is not zero.                                                     *)
(***************************************************************************)
C4_FailureExitsNonZero ==
    (pc = "exited" /\ Printed("Error / Exception") /\ request # "unset")
    => (~Printed("inventory") /\ exit_status # 0)

(***************************************************************************)
(* C7.  get_tags returns, for a tag list, the names lowercase(key) + '-' + *)
(* lowercase(value) of its tags: every tag's name is in the result, every  *)
(* element of the result is the name of a tag, no name occurs twice (so    *)
(* tags equal up to case give one name), and the names are in the order of *)
(* their first occurrence in the tag list.                                 *)
(***************************************************************************)
NameOfTag(item) == lower(item.Key) \o <<"-">> \o lower(item.Value)

FirstIndex(name) ==
    CHOOSE i \in 1..Len(tags_list) :
        /\ NameOfTag(tags_list[i]) = name
        /\ \A j \in 1..(i - 1) : NameOfTag(tags_list[j]) # name

C7_GetTags ==
    pc = "tags_done" =>
        /\ \A i \in 1..Len(tags_list) : Contains(group_names, NameOfTag(tags_list[i]))
        /\ \A p \in 1..Len(group_names) :
             \E i \in 1..Len(tags_list) : NameOfTag(tags_list[i]) = group_names[p]
        /\ \A p, q \in 1..Len(group_names) :
             p # q => group_names[p] # group_names[q]
        /\ \A p, q \in 1..Len(group_names) :
             p < q => FirstIndex(group_names[p]) < FirstIndex(group_names[q])

C7_Witness ==
    /\ pc = "tags_done"
    /\ Len(tags_list) = 2
    /\ tags_list[1] # tags_list[2]
    /\ lower(tags_list[1].Key) = lower(tags_list[2].Key)
    /\ lower(tags_list[1].Value) = lower(tags_list[2].Value)
    /\ Len(group_names) = 1

(***************************************************************************)
(* C8 as stated.  An inventory is built or printed only when --list is     *)
(* given.                                                                  *)
(***************************************************************************)
C8_Original == (Built \/ Printed("inventory")) => args.list

(***************************************************************************)
(* C8 amended.  An inventory is built or printed only when --list is given *)
(* or --workspace-ids is given with at least one id; with neither, the     *)
(* command prints the help text and ends.                                  *)
(***************************************************************************)
C8_OutputNeedsListOrIds ==
    /\ (Built \/ Printed("inventory") \/ pc \notin {"main", "exited"})
         => (args.list \/ args.workspace_ids # <<>>)
    /\ (pc = "exited" /\ ~args.list /\ args.workspace_ids = <<>>)
         => stdout = <<[kind |-> "help"]>>

C8_Witness ==
    /\ pc = "exited"
    /\ ~args.list
    /\ args.workspace_ids # <<>>
    /\ Printed("inventory")
    /\ \E n \in GroupKeys : inventory[n].hosts # <<>>

(***************************************************************************)
(* C9.  The tag lookups issued so far are exactly one per processed        *)
(* eligible record, in input order, and none for a skipped record; when a  *)
(* lookup is about to be issued, the record is eligible, its IP address is *)
(* in its OS group and has its hostvars entry; a build that completes has  *)
(* issued the lookup of every eligible record.                             *)
(***************************************************************************)
C9_TagLookupPerEligible ==
    /\ tag_calls
         = LET e == SelectSeq(SubSeq(workspaces, 1, LookedUp), Eligible)
           IN  [k \in 1..Len(e) |-> e[k].WorkspaceId]
    /\ pc = "get_tags" =>
         /\ Eligible(workspaces[idx])
         /\ Contains(HostsOf(ExpectedGroup[workspaces[idx].OperatingSystemName]),
                     workspaces[idx].IpAddress)
         /\ workspaces[idx].IpAddress \in DOMAIN HostVarsMap
    /\ pc = "constructed" => LookedUp = Len(workspaces)

C9_Witness ==
    /\ pc = "constructed"
    /\ Len(workspaces) = 2
    /\ ~Eligible(workspaces[1])
    /\ Eligible(workspaces[2])
    /\ tag_calls = <<workspaces[2].WorkspaceId>>

(***************************************************************************)
(* C10.  Every key of the inventory other than '_meta' and the seven OS    *)
(* group names contains a hyphen; the entry of '_meta' holds only the      *)
(* hostvars map; and the host list of each OS group is exactly the IP      *)
(* addresses of the processed eligible records of that operating system,   *)
(* in input order: the tag path appends to neither.                        *)
(***************************************************************************)
RECURSIVE IpsOf(_, _)
IpsOf(os, n) ==
    IF n = 0 THEN <<>>
    ELSE IF Eligible(workspaces[n]) /\ workspaces[n].OperatingSystemName = os
         THEN Append(IpsOf(os, n - 1), workspaces[n].IpAddress)
         ELSE IpsOf(os, n - 1)

C10_TagGroupsApart ==
    /\ \A n \in DOMAIN inventory : n \in OSGroups \/ n = meta_key \/ HasHyphen(n)
    /\ Built => DOMAIN inventory[meta_key] = {"hostvars"}
    /\ \A os \in RecognisedOS : HostsOf(ExpectedGroup[os]) = IpsOf(os, Decided)
    /\ \A n \in DOMAIN inventory : HasHyphen(n) => n \notin OSGroups /\ n # meta_key

C10_Witness ==
    /\ pc = "constructed"
    /\ HostsOf(ubuntu_22_04_workspaces) # <<>>
    /\ \E n \in GroupKeys :
         /\ HasHyphen(n)
         /\ startswith(n, <<"u","b","u","n","t","u">>)
         /\ inventory[n].hosts # <<>>

====
